---- MODULE Spec2Model ----
(***************************************************************************)
(* Projectile lifecycle and collision resolution of the roguelite:        *)
(* ProjectilePool, Projectile / PierceProjectile / ExplosiveProjectile,   *)
(* WeaponSystem and CollisionService, driven by the frame loop.           *)
(*                                                                         *)
(* Handlers are written as operators from a machine state (a record `s`)  *)
(* to the machine state after the call, so that a handler that calls      *)
(* another one (destroy -> returnToPool -> emit -> listeners) is one      *)
(* action.  The fields of `s` are the module's variables.                 *)
(***************************************************************************)
EXTENDS Integers, Sequences, FiniteSets, TLC

(***************************************************************************)
(* Bounds of the model.                                                    *)
(***************************************************************************)
\* game.loop.frame values explored
MaxFrame == 4
\* getProjectile calls explored
MaxAcquire == 2
\* emergencyCleanup calls explored
MaxCleanups == 1
\* instances pre-allocated per variant by each pool (POOL_SIZE, scaled down)
PoolSize == 1
\* position units per pixel (positions are fractional in the program)
SubPixel == 2
\* the clock values a takeDamage call of the player can carry: multiples of
\* TimeStep milliseconds up to MaxTimeSteps steps
TimeStep == 250
MaxTimeSteps == 8
\* the scene clock of the waves advances in steps of ClockStep milliseconds,
\* MaxClock times
ClockStep == 200
MaxClock == 16
\* the GraphicsPool's initialSize and maxSize, scaled down, and the number
\* of getGraphics and returnGraphics calls explored
GraphicsInitialSize == 2
GraphicsMaxSize == 4
MaxGraphicsCalls == 8

(***************************************************************************)
(* The frame loop, with time and space scaled down to a small scene.      *)
(***************************************************************************)
\* frames between two shots (Player.canShoot)
FireFrames == 1
\* frames of the 3000 ms auto-destroy delay
LifetimeFrames == 3
\* pixels a projectile travels per frame (SPEED * delta / 1000)
StepPx == 25
\* scene.scale.width and scene.scale.height, in pixels
SceneWidth == 60
SceneHeight == 60

(***************************************************************************)
(* Program constants.                                                      *)
(***************************************************************************)
MaxPierce == 3
PlayerMaxHp == 10
HitCooldown == 500
ExplosionRadius == 60
ExplosiveDamage == 2
OffScreenMargin == 50
HitGateFrames == 5
ProjectileBodySize == 4
EnemyBodySize == 24
EnemyHp == 5

Variants == {"normal", "pierce", "explosive"}
Directions == {"left", "right", "up", "down"}
PoolOwners == <<"player", "scene">>

Px(n) == n * SubPixel

\* Math.round on a coordinate held in position units: floor(v / SubPixel + 1/2)
MathRound(v) == (2 * v + SubPixel) \div (2 * SubPixel)

Abs(n) == IF n < 0 THEN -n ELSE n
Min(a, b) == IF a < b THEN a ELSE b
Max(a, b) == IF a > b THEN a ELSE b

EmptyFn == [k \in {} |-> 0]

RemoveFromSeq(q, v) == SelectSeq(q, LAMBDA z : z # v)

(***************************************************************************)
(* The world the player and the spawner put around the core.              *)
(***************************************************************************)
Enemies == {"E1", "E2", "E3", "E4", "E5"}

\* E5 is an object of the enemy group that has rank and pursue but no
\* takeDamage method
BareEnemies == {"E5"}

\* the player's position when it fires (Player.shoot passes this.x, this.y)
SpawnPositions == {<<Px(48), Px(50)>>}
FireDirections == {"right", "left"}
\* where the player stands
PlayerPosition == CHOOSE pos \in SpawnPositions : TRUE
\* milliseconds of scene.time.now per frame of the model: the lifetime of
\* 3000 ms is LifetimeFrames frames
FrameMs == 3000 \div LifetimeFrames

\* the position of an enemy in frames 0, 1, 2, ... (it stays at the last one):
\* E1 walks up to E2, the others stand; E4 stands 70 px from the place where
\* a shot to the right meets E1 and E2; E5 stands to the left of the player
EnemyPath(e) ==
  CASE e = "E1" -> <<(<<Px(60), Px(50)>>), (<<Px(60), Px(50)>>), (<<Px(60), Px(50)>>),
                     (<<Px(85) - 1, Px(50)>>)>>
    [] e = "E2" -> <<(<<Px(85), Px(50)>>)>>
    [] e = "E4" -> <<(<<Px(143), Px(50)>>)>>
    [] e = "E5" -> <<(<<Px(0 - 2), Px(50)>>)>>
    [] OTHER    -> <<(<<Px(110), Px(50)>>)>>

EnemyAt(e, f) == EnemyPath(e)[IF f + 1 < Len(EnemyPath(e)) THEN f + 1 ELSE Len(EnemyPath(e))]

VARIABLES
  frame,      \* scene.game.loop.frame
  proj,       \* the projectile instances, in creation order
  group,      \* projectileGroup.children.entries
  pools,      \* the free lists of the two ProjectilePools
  stats,      \* the statistics of the two ProjectilePools
  frameGate,  \* CollisionService.frameGate
  enemies,    \* the enemies in the scene
  lastShot,   \* Player.lastShotTime, in frames
  acquired,   \* number of getProjectile calls so far
  cleanups,   \* number of emergencyCleanup calls so far
  pass,       \* the projectiles the collider pass of this frame iterates over
  player,     \* the Player: hp, lastHitTime, and the clock of its last call
  spawner,    \* the EnemySpawnService, the clock events it started, and the wave index of the scene
  graphicsPool, \* the GraphicsPool and the Graphics handles its callers hold
  gateOwner,  \* history: the (instance, enemy) pair whose report wrote each gate entry
  pairLog,    \* history: hits resolved this frame for each reported (instance, enemy) pair
  last        \* history: what the last operation did

vars == <<frame, proj, group, pools, stats, frameGate, enemies, lastShot,
          acquired, cleanups, pass, player, spawner, graphicsPool, gateOwner,
          pairLog, last>>

(***************************************************************************)
(* Machine state handed through the handlers.  `dmg` counts, per enemy,   *)
(* the takeDamage calls of the running operation and `rel` collects the   *)
(* instances it released; both are history of the operation, not program  *)
(* state.                                                                  *)
(***************************************************************************)
NoDamage == [e \in Enemies |-> 0]

Machine ==
  [proj |-> proj, group |-> group, pools |-> pools, stats |-> stats,
   frameGate |-> frameGate, enemies |-> enemies, gateOwner |-> gateOwner,
   dmg |-> NoDamage, rel |-> {}, ev |-> 0,
   player |-> player, now |-> frame * FrameMs]

\* a projectile instance as its constructor leaves it (active is Phaser's default)
NewInstance(variant, owner) ==
  [variant |-> variant, owner |-> owner, active |-> TRUE, bodyEnabled |-> TRUE,
   x |-> 0, y |-> 0, dir |-> "down", timer |-> -1,
   hitGate |-> EmptyFn, hitEnemies |-> {}, currentPierceCount |-> 0,
   hasExploded |-> FALSE, damagedEnemies |-> {},
   seen |-> {}, hurt |-> {}, blasts |-> 0, hits |-> NoDamage, born |-> -1,
   returns |-> 0, prevTimer |-> -1, destroyed |-> FALSE]

\* the enhanced Enemy: hp lives in its HealthComponent
NewEnemy(e) ==
  [hp |-> EnemyHp, x |-> EnemyAt(e, 0)[1], y |-> EnemyAt(e, 0)[2], deaths |-> 0,
   hasTakeDamage |-> e \notin BareEnemies]

(***************************************************************************)
(* ProjectilePool                                                          *)
(***************************************************************************)
ZeroCounts == [v \in Variants |-> 0]
EmptyPools == [v \in Variants |-> <<>>]

\* one pass of a pre-allocation loop: n instances of one variant
RECURSIVE preAllocate(_, _, _, _)
preAllocate(s, owner, variant, n) ==
  IF n = 0 THEN s
  ELSE LET i == Len(s.proj) + 1
           inst == [NewInstance(variant, owner) EXCEPT !.active = FALSE]
       IN preAllocate(
            [s EXCEPT !.proj = Append(@, inst),
                      !.pools[owner][variant] = Append(@, i),
                      !.stats[owner].created[variant] = @ + 1],
            owner, variant, n - 1)

preAllocatePools(s, owner) ==
  preAllocate(preAllocate(preAllocate(s, owner, "normal", PoolSize),
                          owner, "pierce", PoolSize),
              owner, "explosive", PoolSize)

\* constructor.name of the instance
getProjectileType(inst) == inst.variant

\* a return that deactivates the instance and forgets to keep it
returnProjectileDrop(s, owner, i) ==
  LET type == getProjectileType(s.proj[i])
  IN [s EXCEPT !.group = RemoveFromSeq(@, i),
               !.proj[i].active = FALSE,
               !.stats[owner].active[type] = @ - 1]

returnProjectile(s, owner, i) ==
  LET type == getProjectileType(s.proj[i])
  IN [s EXCEPT !.group = RemoveFromSeq(@, i),
               !.proj[i].active = FALSE,
               !.pools[owner][type] = Append(@, i),
               !.stats[owner].active[type] = @ - 1]

\* a take that reads the last free instance and leaves it in the free list
takeFromPoolPeek(s, owner, type) ==
  LET free == s.pools[owner][type]
  IN IF Len(free) = 0
     THEN <<Len(s.proj) + 1,
            [s EXCEPT !.proj = Append(@, NewInstance(type, owner)),
                      !.stats[owner].created[type] = @ + 1]>>
     ELSE <<free[Len(free)],
            [s EXCEPT !.stats[owner].reused[type] = @ + 1]>>

\* getNormalProjectile / getPierceProjectile / getExplosiveProjectile:
\* <<instance, machine>> with the instance popped or newly constructed
takeFromPool(s, owner, type) ==
  LET free == s.pools[owner][type]
  IN IF Len(free) = 0
     THEN <<Len(s.proj) + 1,
            [s EXCEPT !.proj = Append(@, NewInstance(type, owner)),
                      !.stats[owner].created[type] = @ + 1]>>
     ELSE <<free[Len(free)],
            [s EXCEPT !.pools[owner][type] = SubSeq(free, 1, Len(free) - 1),
                      !.stats[owner].reused[type] = @ + 1]>>

\* Array.prototype.forEach over children.entries while returnProjectile
\* splices the visited child out of the same array
RECURSIVE emergencyForEach(_, _, _, _)
emergencyForEach(s, owner, k, len) ==
  IF k > len THEN s
  ELSE IF k > Len(s.group) THEN emergencyForEach(s, owner, k + 1, len)
  ELSE LET child == s.group[k]
       IN emergencyForEach(
            [returnProjectile(s, owner, child) EXCEPT !.rel = @ \cup {child}],
            owner, k + 1, len)

emergencyCleanup(s, owner) == emergencyForEach(s, owner, 1, Len(s.group))

(***************************************************************************)
(* CollisionService: frame gate                                            *)
(***************************************************************************)
\* projectile.name is never set (Phaser's default name is the empty string),
\* so the position fallback of the || chain is the id
projectileId(inst) == <<MathRound(inst.x), MathRound(inst.y)>>

\* Enemy sets neither enemyId nor name, so the position fallback is the id
getEnemyIdentifier(en) == <<MathRound(en.x), MathRound(en.y)>>

generateCollisionKey(inst, en) == <<projectileId(inst), getEnemyIdentifier(en)>>

\* a gate that never lets a recorded key through again
gatePassesOnce(gate, key, currentFrame) == key \notin DOMAIN gate

\* TRUE iff the gate lets the key through at this frame
gatePasses(gate, key, currentFrame) ==
  ~(key \in DOMAIN gate /\ gate[key] = currentFrame)

\* the gate after shouldProcessCollision(key)
shouldProcessCollision(gate, key, currentFrame) ==
  IF gatePasses(gate, key, currentFrame)
  THEN [k \in DOMAIN gate \cup {key} |-> IF k = key THEN currentFrame ELSE gate[k]]
  ELSE gate

\* listener of 'projectile:return': drop the keys that start with "<projId>:"
onProjectileReturn(s, i) ==
  LET projId == projectileId(s.proj[i])
      keep == {k \in DOMAIN s.frameGate : k[1] # projId}
  IN [s EXCEPT !.frameGate = [k \in keep |-> s.frameGate[k]],
               !.gateOwner = [k \in keep |-> s.gateOwner[k]]]

(***************************************************************************)
(* Projectile                                                              *)
(***************************************************************************)
\* scene.events.emit('projectile:return', this): the listeners in the order
\* they subscribed (the Player's WeaponSystem, the scene's WeaponSystem,
\* the CollisionService)
emitProjectileReturn(s, i) ==
  LET emitted == [s EXCEPT !.proj[i].returns = @ + 1]
  IN onProjectileReturn(
       returnProjectile(returnProjectile(emitted, PoolOwners[1], i),
                        PoolOwners[2], i), i)

\* a return to the pool that leaves the physics body enabled
returnToPoolBodyOn(s, i) ==
  IF ~s.proj[i].active THEN s
  ELSE emitProjectileReturn(
         [s EXCEPT !.proj[i].timer = -1, !.rel = @ \cup {i}], i)

returnToPool(s, i) ==
  IF ~s.proj[i].active THEN s
  ELSE emitProjectileReturn(
         [s EXCEPT !.proj[i].timer = -1,
                   !.proj[i].bodyEnabled = FALSE,
                   !.rel = @ \cup {i}], i)

\* a reset that arms no auto-destroy timer
baseResetNoTimer(inst, x, y, direction, now) ==
  [inst EXCEPT !.x = x, !.y = y, !.dir = direction,
               !.bodyEnabled = TRUE, !.timer = -1]

\* Projectile.reset
baseReset(inst, x, y, direction, now) ==
  [inst EXCEPT !.x = x, !.y = y, !.dir = direction,
               !.bodyEnabled = TRUE, !.timer = now]

pierceReset(inst, x, y, direction, now) ==
  [baseReset(inst, x, y, direction, now) EXCEPT
     !.hitGate = EmptyFn, !.hitEnemies = {}, !.currentPierceCount = 0]

explosiveReset(inst, x, y, direction, now) ==
  [baseReset(inst, x, y, direction, now) EXCEPT
     !.hasExploded = FALSE, !.damagedEnemies = {}]

\* a reset that leaves the hit history of the previous activation in place
resetKeepingHistory(inst, x, y, direction, now) ==
  baseReset(inst, x, y, direction, now)

\* the reset the instance's class provides
reset(inst, x, y, direction, now) ==
  CASE inst.variant = "pierce"    -> pierceReset(inst, x, y, direction, now)
    [] inst.variant = "explosive" -> explosiveReset(inst, x, y, direction, now)
    [] OTHER                      -> baseReset(inst, x, y, direction, now)

\* PierceProjectile.destroy / ExplosiveProjectile.destroy / Projectile.destroy
destroy(s, i) ==
  LET cleared ==
        CASE s.proj[i].variant = "pierce" ->
               [s EXCEPT !.proj[i].hitGate = EmptyFn,
                         !.proj[i].hitEnemies = {},
                         !.proj[i].currentPierceCount = 0]
          [] s.proj[i].variant = "explosive" ->
               [s EXCEPT !.proj[i].damagedEnemies = {},
                         !.proj[i].hasExploded = FALSE]
          [] OTHER -> s
  IN returnToPool(cleared, i)

\* one preUpdate step of an active projectile: the manual movement, then
\* the off-screen test
moved(inst) ==
  CASE inst.dir = "left"  -> [inst EXCEPT !.x = @ - Px(StepPx)]
    [] inst.dir = "right" -> [inst EXCEPT !.x = @ + Px(StepPx)]
    [] inst.dir = "up"    -> [inst EXCEPT !.y = @ - Px(StepPx)]
    [] OTHER              -> [inst EXCEPT !.y = @ + Px(StepPx)]

offScreen(inst) ==
  \/ inst.x < Px(-OffScreenMargin)
  \/ inst.x > Px(SceneWidth + OffScreenMargin)
  \/ inst.y < Px(-OffScreenMargin)
  \/ inst.y > Px(SceneHeight + OffScreenMargin)

preUpdate(s, i) ==
  IF ~s.proj[i].active THEN s
  ELSE LET m == [s EXCEPT !.proj[i] = moved(@)]
       IN IF offScreen(m.proj[i]) THEN returnToPool(m, i) ELSE m

RECURSIVE preUpdateAll(_, _)
preUpdateAll(s, i) ==
  IF i > Len(s.proj) THEN s ELSE preUpdateAll(preUpdate(s, i), i + 1)

\* the delayedCall armed by reset is due
timerDue(inst, now) == inst.timer >= 0 /\ now - inst.timer >= LifetimeFrames

\* a timer callback that emits the return event whatever the instance's state
timerCallbackUnguarded(s, i) ==
  emitProjectileReturn(
    [s EXCEPT !.proj[i].timer = -1, !.proj[i].bodyEnabled = FALSE,
              !.rel = @ \cup {i}], i)

\* the callback of the delayedCall: the one-shot timer is spent, and
\* returnToPool runs
timerCallback(s, i) == returnToPool([s EXCEPT !.proj[i].timer = -1], i)

RECURSIVE fireTimers(_, _, _)
fireTimers(s, i, now) ==
  IF i > Len(s.proj) THEN s
  ELSE IF timerDue(s.proj[i], now)
       THEN fireTimers(timerCallback(s, i), i + 1, now)
       ELSE fireTimers(s, i + 1, now)

\* Projectile.actualDestroy: the timer goes and GameObject.destroy runs; no
\* code of the repository calls it
actualDestroy(inst) ==
  [inst EXCEPT !.timer = -1, !.active = FALSE, !.bodyEnabled = FALSE,
               !.destroyed = TRUE]

\* ProjectilePool.destroy: the cleanup, then proj.destroy() for every
\* instance of the three free lists (the override, which returns to the
\* pool), then the free lists are emptied
RECURSIVE destroyEach(_, _)
destroyEach(s, list) ==
  IF list = <<>> THEN s ELSE destroyEach(destroy(s, Head(list)), Tail(list))

poolDestroy(s, owner) ==
  LET cleaned == emergencyCleanup(s, owner)
      pooled == cleaned.pools[owner]["normal"] \o cleaned.pools[owner]["pierce"]
                  \o cleaned.pools[owner]["explosive"]
  IN [destroyEach(cleaned, pooled) EXCEPT !.pools[owner] = EmptyPools]

(***************************************************************************)
(* ProjectilePool.getProjectile                                            *)
(***************************************************************************)
\* an acquire whose reset leaves a still pending auto-destroy timer in place
getProjectileKeepTimer(s, owner, type, x, y, direction, now) ==
  LET got == takeFromPool(s, owner, type)
      i == got[1]
      t == [got[2] EXCEPT !.stats[owner].active[type] = @ + 1]
      old == t.proj[i].timer
  IN <<i,
       [t EXCEPT !.proj[i] = [reset(@, x, y, direction, now) EXCEPT
                                !.active = TRUE,
                                !.timer = IF old >= 0 THEN old ELSE @],
                 !.group = IF \E k \in 1..Len(@) : @[k] = i THEN @ ELSE Append(@, i)]>>

getProjectile(s, owner, type, x, y, direction, now) ==
  LET got == takeFromPool(s, owner, type)
      i == got[1]
      t == [got[2] EXCEPT !.stats[owner].active[type] = @ + 1]
  IN <<i,
       [t EXCEPT !.proj[i] = [reset(@, x, y, direction, now) EXCEPT !.active = TRUE],
                 !.group = IF \E k \in 1..Len(@) : @[k] = i THEN @ ELSE Append(@, i)]>>

(***************************************************************************)
(* Enemy                                                                   *)
(***************************************************************************)
\* a takeDamage that does not ask isDead first
healthTakeDamageOfDead(en, amount) ==
  LET hp == Max(0, en.hp - amount)
  IN [en EXCEPT !.hp = hp, !.deaths = IF hp = 0 THEN @ + 1 ELSE @]

\* HealthComponent.takeDamage, reached through Enemy.takeDamage
healthTakeDamage(en, amount) ==
  IF en.hp <= 0 THEN en
  ELSE LET hp == Max(0, en.hp - amount)
       IN [en EXCEPT !.hp = hp, !.deaths = IF hp = 0 THEN @ + 1 ELSE @]

takeDamage(s, e, amount) ==
  [s EXCEPT !.enemies[e] = healthTakeDamage(@, amount),
            !.dmg[e] = @ + 1]

(***************************************************************************)
(* Geometry of the physics layer                                           *)
(***************************************************************************)
\* Arcade bodies of a projectile and an enemy intersect (overlap callback)
bodiesOverlap(inst, en) ==
  /\ 2 * Abs(inst.x - en.x) < Px(ProjectileBodySize) + Px(EnemyBodySize)
  /\ 2 * Abs(inst.y - en.y) < Px(ProjectileBodySize) + Px(EnemyBodySize)

\* physics.overlapCirc: the circle meets the body's rectangle
\* (Phaser.Geom.Intersects.CircleToRectangle), all lengths doubled
circleMeetsBody(cx, cy, radius, en) ==
  LET half == Px(EnemyBodySize)
      dx == 2 * Abs(cx - en.x)
      dy == 2 * Abs(cy - en.y)
      r2 == 2 * radius
  IN IF dx > half + r2 \/ dy > half + r2 THEN FALSE
     ELSE IF dx <= half \/ dy <= half THEN TRUE
     ELSE (dx - half) * (dx - half) + (dy - half) * (dy - half) <= r2 * r2

\* the bodies overlapCirc returns, in the order the world holds them
EnemyOrder == <<"E1", "E2", "E3", "E4", "E5">>

(***************************************************************************)
(* PierceProjectile                                                        *)
(***************************************************************************)
\* shouldProcessHit: `lastFrame && ...` lets a recorded frame 0 through
hitGateBlocks(inst, enemyId, currentFrame) ==
  /\ enemyId \in DOMAIN inst.hitGate
  /\ inst.hitGate[enemyId] # 0
  /\ currentFrame - inst.hitGate[enemyId] < HitGateFrames

\* an onHitEnemy that asks for the destroy one hit late
pierceOnHitEnemyLate(inst, en, currentFrame) ==
  LET enemyId == getEnemyIdentifier(en)
  IN IF hitGateBlocks(inst, enemyId, currentFrame) THEN <<FALSE, inst>>
     ELSE LET gated == [inst EXCEPT !.hitGate =
                          [k \in DOMAIN @ \cup {enemyId} |->
                             IF k = enemyId THEN currentFrame ELSE @[k]]]
              counted == IF enemyId \in gated.hitEnemies THEN gated
                         ELSE [gated EXCEPT !.hitEnemies = @ \cup {enemyId},
                                            !.currentPierceCount = @ + 1]
          IN <<counted.currentPierceCount > MaxPierce, counted>>

\* <<shouldDestroy, instance after the call>>
pierceOnHitEnemy(inst, en, currentFrame) ==
  LET enemyId == getEnemyIdentifier(en)
  IN IF hitGateBlocks(inst, enemyId, currentFrame) THEN <<FALSE, inst>>
     ELSE LET gated == [inst EXCEPT !.hitGate =
                          [k \in DOMAIN @ \cup {enemyId} |->
                             IF k = enemyId THEN currentFrame ELSE @[k]]]
              counted == IF enemyId \in gated.hitEnemies THEN gated
                         ELSE [gated EXCEPT !.hitEnemies = @ \cup {enemyId},
                                            !.currentPierceCount = @ + 1]
          IN <<counted.currentPierceCount >= MaxPierce, counted>>

(***************************************************************************)
(* Player                                                                  *)
(***************************************************************************)
\* `now` is scene.time.now at the last call, `hurtTimes` the timestamps of
\* the calls that reduced hp, `changed` whether the last call changed hp
\* (history)
NewPlayer ==
  [hp |-> PlayerMaxHp, lastHitTime |-> 0, now |-> 0, hurtTimes |-> {},
   changed |-> FALSE, x |-> PlayerPosition[1], y |-> PlayerPosition[2]]

\* a takeDamage without the invincibility test
playerTakeDamageAlways(pl, amount, timestamp) ==
  LET hp == IF pl.hp <= 0 THEN pl.hp ELSE Max(0, pl.hp - amount)
  IN [pl EXCEPT !.lastHitTime = timestamp, !.hp = hp, !.now = timestamp,
                !.changed = hp # pl.hp,
                !.hurtTimes = IF hp < pl.hp THEN @ \cup {timestamp} ELSE @]

\* Player.takeDamage(amount, timestamp)
playerTakeDamage(pl, amount, timestamp) ==
  IF timestamp - pl.lastHitTime < HitCooldown
  THEN [pl EXCEPT !.now = timestamp, !.changed = FALSE]
  ELSE LET hp == IF pl.hp <= 0 THEN pl.hp ELSE Max(0, pl.hp - amount)
       IN [pl EXCEPT !.lastHitTime = timestamp, !.hp = hp, !.now = timestamp,
                     !.changed = hp # pl.hp,
                     !.hurtTimes = IF hp < pl.hp THEN @ \cup {timestamp} ELSE @]

(***************************************************************************)
(* ExplosiveProjectile                                                     *)
(***************************************************************************)
RECURSIVE damageEnemiesInRadius(_, _, _)
damageEnemiesInRadius(s, i, k) ==
  IF k > Len(EnemyOrder) THEN s
  ELSE LET e == EnemyOrder[k]
           en == s.enemies[e]
           inst == s.proj[i]
           enemyId == getEnemyIdentifier(en)
       IN IF \/ ~circleMeetsBody(inst.x, inst.y, Px(ExplosionRadius), en)
             \/ ~en.hasTakeDamage
             \/ enemyId \in inst.damagedEnemies
          THEN damageEnemiesInRadius(s, i, k + 1)
          ELSE damageEnemiesInRadius(
                 takeDamage([s EXCEPT !.proj[i].damagedEnemies = @ \cup {enemyId}],
                            e, ExplosiveDamage),
                 i, k + 1)

\* the Player's body is one of the dynamic bodies overlapCirc returns (its
\* body has the size of an enemy's), and the Player has a takeDamage method:
\* takeDamage(2) is called without a timestamp, so scene.time.now is used
damagePlayerInRadius(s, i) ==
  LET inst == s.proj[i]
      playerId == getEnemyIdentifier(s.player)
  IN IF \/ ~circleMeetsBody(inst.x, inst.y, Px(ExplosionRadius), s.player)
        \/ playerId \in inst.damagedEnemies
     THEN s
     ELSE [s EXCEPT !.proj[i].damagedEnemies = @ \cup {playerId},
                    !.player = playerTakeDamage(@, ExplosiveDamage, s.now)]

\* an explosion whose area pass runs a second time
explodeTwice(s, i) ==
  damageEnemiesInRadius(
    [damageEnemiesInRadius(
       damagePlayerInRadius(
         [s EXCEPT !.proj[i].bodyEnabled = FALSE, !.proj[i].blasts = @ + 1], i),
       i, 1)
     EXCEPT !.proj[i].damagedEnemies = {}, !.proj[i].blasts = @ + 1], i, 1)

\* `blasts` counts the area passes of the activation (history)
explode(s, i) ==
  damageEnemiesInRadius(
    damagePlayerInRadius(
      [s EXCEPT !.proj[i].bodyEnabled = FALSE, !.proj[i].blasts = @ + 1], i),
    i, 1)

\* returns TRUE in every case; the machine after the call
explosiveOnHitEnemy(s, i) ==
  IF s.proj[i].hasExploded THEN s
  ELSE explode([s EXCEPT !.proj[i].hasExploded = TRUE], i)

(***************************************************************************)
(* CollisionService: hit resolution                                        *)
(***************************************************************************)
\* a Normal hit that lets the projectile fly on
handleNormalProjectileHitKeeps == FALSE

handleNormalProjectileHit == TRUE

\* an Explosive hit that lets the projectile fly on
handleExplosiveProjectileHitKeeps == FALSE

\* ExplosiveProjectile.onHitEnemy always answers true
handleExplosiveProjectileHit == TRUE

destroyProjectile(s, i) ==
  IF s.proj[i].active THEN destroy(s, i) ELSE s

\* damage the service applies itself, by damage type
serviceDamage(variant) == IF variant = "explosive" THEN ExplosiveDamage ELSE 1

processProjectileCollisionFixed(s, i, e, currentFrame) ==
  LET variant == s.proj[i].variant
      hit == pierceOnHitEnemy(s.proj[i], s.enemies[e], currentFrame)
      shouldDestroy ==
        CASE variant = "pierce"    -> hit[1]
          [] variant = "explosive" -> handleExplosiveProjectileHit
          [] OTHER                 -> handleNormalProjectileHit
      resolved ==
        CASE variant = "pierce"    -> [s EXCEPT !.proj[i] = hit[2]]
          [] variant = "explosive" -> explosiveOnHitEnemy(s, i)
          [] OTHER                 -> s
      damaged == IF s.enemies[e].hasTakeDamage
                 THEN takeDamage(resolved, e, serviceDamage(variant))
                 ELSE resolved
      after == IF shouldDestroy THEN destroyProjectile(damaged, i) ELSE damaged
  IN [after EXCEPT !.ev = @ + 1]

\* the machine after one overlap callback for (i, e)
handleProjectileEnemyCollision(s, i, e, currentFrame) ==
  LET key == generateCollisionKey(s.proj[i], s.enemies[e])
  IN IF ~gatePasses(s.frameGate, key, currentFrame) THEN s
     ELSE processProjectileCollisionFixed(
            [s EXCEPT !.frameGate = shouldProcessCollision(@, key, currentFrame),
                      !.gateOwner = [k \in DOMAIN @ \cup {key} |->
                                       IF k = key THEN <<i, e>> ELSE @[k]]],
            i, e, currentFrame)

\* the properties of a game object the service looks at
ObjectShape(o) ==
  CASE o[1] = "projectile" -> [body |-> TRUE, getDirection |-> TRUE,
                               rank |-> FALSE, pursue |-> FALSE]
    [] o[1] = "enemy"      -> [body |-> TRUE, getDirection |-> FALSE,
                               rank |-> TRUE, pursue |-> TRUE]
    [] OTHER               -> [body |-> TRUE, getDirection |-> FALSE,
                               rank |-> FALSE, pursue |-> FALSE]

hasProjectileBody(o) == ObjectShape(o).body /\ ObjectShape(o).getDirection

hasEnemyRank(o) == ObjectShape(o).rank /\ ObjectShape(o).pursue

\* <<projectile, enemy>>, or << >> when neither order fits
identifyProjectileEnemy(obj1, obj2) ==
  IF hasProjectileBody(obj1) /\ hasEnemyRank(obj2) THEN <<obj1, obj2>>
  ELSE IF hasProjectileBody(obj2) /\ hasEnemyRank(obj1) THEN <<obj2, obj1>>
  ELSE << >>

\* a rejection that still counts a collision
invalidCollisionObjectsCounted(s) == [s EXCEPT !.ev = @ + 1]

\* the handler warns about invalid collision objects and returns
invalidCollisionObjects(s) == s

\* the callback the collider calls with the two game objects
collisionCallback(s, obj1, obj2, currentFrame) ==
  LET id == identifyProjectileEnemy(obj1, obj2)
  IN IF id = << >> THEN invalidCollisionObjects(s)
     ELSE handleProjectileEnemyCollision(s, id[1][2], id[2][2], currentFrame)

(***************************************************************************)
(* EnemySpawnService                                                       *)
(***************************************************************************)
\* the preset waves: the counts of the spawn entries and the delay between
\* two ticks of the spawn timer, in ms
DEFAULT_WAVES ==
  << [wave |-> 1, enemies |-> <<5>>, delay |-> 800],
     [wave |-> 2, enemies |-> <<7, 2>>, delay |-> 600],
     [wave |-> 3, enemies |-> <<10, 3>>, delay |-> 400] >>

WaveNumbers == {DEFAULT_WAVES[k].wave : k \in 1..Len(DEFAULT_WAVES)}

\* spawnTimer 0 is `undefined`; `timers` are the looping events of the
\* scene clock that were not removed, in the order they were added, each
\* with the clock value of its next tick; `currentWaveIndex` is the
\* scene's.  `emitted` counts the 'wave:spawning-complete' events per wave
\* number, `spawned` the spawn entries of each wave that were spawned,
\* `started` holds the waves started while isSpawning() was false (history).
NewSpawner ==
  [spawnTimer |-> 0, spawnsRemaining |-> <<>>, currentWave |-> 0,
   timers |-> <<>>, timersAdded |-> 0, now |-> 0, currentWaveIndex |-> 0,
   emitted |-> [w \in WaveNumbers |-> 0],
   spawned |-> [w \in WaveNumbers |-> 0],
   started |-> {}]

isSpawning(sp) == sp.spawnTimer # 0 /\ Len(sp.spawnsRemaining) > 0

\* EnemySpawnService.startWave: the timer of an earlier wave is not removed
startWave(sp, waveConfig) ==
  LET id == sp.timersAdded + 1
  IN [sp EXCEPT
        !.currentWave = waveConfig.wave,
        !.spawnsRemaining =
          [k \in 1..Len(waveConfig.enemies) |->
             [wave |-> waveConfig.wave, count |-> waveConfig.enemies[k]]],
        !.spawnTimer = id,
        !.timersAdded = id,
        !.timers = Append(@, [id |-> id, delay |-> waveConfig.delay,
                              due |-> sp.now + waveConfig.delay]),
        !.started = IF isSpawning(sp) THEN @ ELSE @ \cup {waveConfig.wave}]

finishWave(sp) ==
  LET removed == IF sp.spawnTimer # 0
                 THEN [sp EXCEPT !.timers = SelectSeq(@, LAMBDA z : z.id # sp.spawnTimer),
                                 !.spawnTimer = 0]
                 ELSE sp
  IN [removed EXCEPT !.emitted[sp.currentWave] = @ + 1]

spawnNext(sp) ==
  IF Len(sp.spawnsRemaining) = 0 THEN finishWave(sp)
  ELSE LET spawnConfig == Head(sp.spawnsRemaining)
       IN [sp EXCEPT !.spawnsRemaining = Tail(@),
                     !.spawned[spawnConfig.wave] = @ + 1]

\* Clock.update: the events that were active when the update began, in the
\* order they were added; an event removed meanwhile does not fire
RECURSIVE clockUpdate(_, _)
clockUpdate(sp, ids) ==
  IF ids = <<>> THEN sp
  ELSE LET live == SelectSeq(sp.timers, LAMBDA z : z.id = Head(ids))
       IN IF live = <<>> \/ live[1].due > sp.now
          THEN clockUpdate(sp, Tail(ids))
          ELSE clockUpdate(
                 spawnNext([sp EXCEPT !.timers =
                              [k \in 1..Len(@) |->
                                 IF @[k].id = Head(ids)
                                 THEN [@[k] EXCEPT !.due = @ + live[1].delay]
                                 ELSE @[k]]]),
                 Tail(ids))

(***************************************************************************)
(* GraphicsPool                                                            *)
(***************************************************************************)
\* createNewGraphics: the new item goes onto availableGraphics and is also
\* the function's result
createNewGraphics(gp) ==
  [gp EXCEPT !.availableGraphics = Append(@, gp.nextId),
             !.nextId = @ + 1,
             !.stats.created = @ + 1]

updateStats(gp) ==
  [gp EXCEPT !.stats.active = Len(gp.activeGraphics),
             !.stats.available = Len(gp.availableGraphics)]

getTotalPoolSize(gp) == gp.stats.active + gp.stats.available

RECURSIVE initializePool(_, _)
initializePool(gp, n) ==
  IF n = 0 THEN updateStats(gp) ELSE initializePool(createNewGraphics(gp), n - 1)

\* items are named by the number of their id; activeGraphics is the Map in
\* insertion order; a Graphics made by the exhausted-pool fallback has a
\* negative name.  `held` are the handles in the hands of callers, `got`
\* the handles handed out since the last returnGraphics, `calls` the
\* number of calls so far (history).
NewGraphicsPool ==
  initializePool(
    [availableGraphics |-> <<>>, activeGraphics |-> <<>>, nextId |-> 0,
     stats |-> [created |-> 0, reused |-> 0, active |-> 0, available |-> 0,
                expansions |-> 0],
     temps |-> 0, held |-> {}, got |-> <<>>, calls |-> 0],
    GraphicsInitialSize)

\* the Map.set of getGraphics: a key that is present keeps its place
mapSet(m, id) == IF \E k \in 1..Len(m) : m[k] = id THEN m ELSE Append(m, id)

\* the activation of the item getGraphics has in hand
checkOut(gp, id) ==
  LET tracked == [gp EXCEPT !.activeGraphics = mapSet(@, id),
                            !.stats.reused = @ + 1]
  IN [updateStats(tracked) EXCEPT !.held = @ \cup {id}, !.got = Append(@, id)]

getGraphics(gp) ==
  LET n == Len(gp.availableGraphics)
  IN IF n > 0
     THEN checkOut([gp EXCEPT !.availableGraphics = SubSeq(@, 1, n - 1)],
                   gp.availableGraphics[n])
     ELSE IF getTotalPoolSize(gp) < GraphicsMaxSize
     THEN checkOut([createNewGraphics(gp) EXCEPT !.stats.expansions = @ + 1],
                   gp.nextId)
     ELSE [gp EXCEPT !.temps = @ + 1,
                     !.held = @ \cup {0 - (gp.temps + 1)},
                     !.got = Append(@, 0 - (gp.temps + 1))]

returnGraphics(gp, graphics) ==
  LET handed == [gp EXCEPT !.held = @ \ {graphics}, !.got = <<>>]
  IN IF \E k \in 1..Len(gp.activeGraphics) : gp.activeGraphics[k] = graphics
     THEN updateStats(
            [handed EXCEPT !.activeGraphics = RemoveFromSeq(@, graphics),
                           !.availableGraphics = Append(@, graphics)])
     ELSE handed

(***************************************************************************)
(* Initial state: the scene after MainScene.create.  The Player builds its *)
(* WeaponSystem first, the scene builds its own afterwards and hands it to *)
(* the Player; both pools pre-allocate and both listen to                  *)
(* 'projectile:return'.                                                    *)
(***************************************************************************)
Quiet ==
  [op |-> "init", p |-> 0, e |-> "none", gated |-> FALSE, spent |-> FALSE,
   stale |-> FALSE,
   already |-> FALSE,
   count0 |-> 0, dmg |-> NoDamage, rel |-> {}, ev |-> 0, deton |-> FALSE,
   inRadius |-> {}, reused |-> FALSE, dirty |-> FALSE, hp0 |-> -1]

Blank ==
  [proj |-> <<>>, group |-> <<>>,
   pools |-> [o \in {PoolOwners[1], PoolOwners[2]} |-> EmptyPools],
   stats |-> [o \in {PoolOwners[1], PoolOwners[2]} |->
                [created |-> ZeroCounts, reused |-> ZeroCounts, active |-> ZeroCounts]],
   frameGate |-> EmptyFn, enemies |-> [e \in Enemies |-> NewEnemy(e)],
   gateOwner |-> EmptyFn, dmg |-> NoDamage, rel |-> {}, ev |-> 0]

Created == preAllocatePools(preAllocatePools(Blank, PoolOwners[1]), PoolOwners[2])

Init ==
  /\ frame = 0
  /\ proj = Created.proj
  /\ group = Created.group
  /\ pools = Created.pools
  /\ stats = Created.stats
  /\ frameGate = EmptyFn
  /\ enemies = Created.enemies
  /\ lastShot = 0
  /\ acquired = 0
  /\ cleanups = 0
  /\ pass = {}
  /\ player = NewPlayer
  /\ spawner = NewSpawner
  /\ graphicsPool = NewGraphicsPool
  /\ gateOwner = EmptyFn
  /\ pairLog = EmptyFn
  /\ last = Quiet

\* the machine an operation leaves becomes the next state
Commit(s) ==
  /\ proj' = s.proj
  /\ group' = s.group
  /\ pools' = s.pools
  /\ stats' = s.stats
  /\ frameGate' = s.frameGate
  /\ enemies' = s.enemies
  /\ gateOwner' = s.gateOwner
  /\ player' = s.player

\* the per-activation state of the variants, as the constructors leave it
variantStateClear(inst) ==
  /\ inst.hitEnemies = {}
  /\ inst.currentPierceCount = 0
  /\ inst.hasExploded = FALSE
  /\ inst.damagedEnemies = {}

(***************************************************************************)
(* Player.shoot -> WeaponSystem.createProjectile -> getProjectile, from    *)
(* scene.update, after the physics step of the frame.                      *)
(***************************************************************************)
Fire(type, pos, direction) ==
  /\ acquired < MaxAcquire
  /\ frame <= MaxFrame
  /\ frame - lastShot >= FireFrames
  /\ LET free == pools[PoolOwners[2]][type]
         got == getProjectile(Machine, PoolOwners[2], type, pos[1], pos[2],
                              direction, frame)
         i == got[1]
         s == [got[2] EXCEPT !.proj[i].seen = {}, !.proj[i].hurt = {},
                             !.proj[i].blasts = 0, !.proj[i].hits = NoDamage,
                             !.proj[i].born = frame,
                             !.proj[i].returns = 0,
                             !.proj[i].prevTimer =
                               IF i <= Len(proj) THEN proj[i].timer ELSE -1]
     IN /\ Commit(s)
        /\ last' = [Quiet EXCEPT !.op = "acquire", !.p = i,
                      !.reused = Len(free) > 0,
                      !.dirty = Len(free) > 0
                                /\ ~variantStateClear(proj[free[Len(free)]])]
  /\ lastShot' = frame
  /\ acquired' = acquired + 1
  /\ pass' = {}
  /\ UNCHANGED <<frame, cleanups, pairLog, spawner, graphicsPool>>

\* the collider registered by the service visits an intersecting pair and
\* calls the handler only while the projectile's body is enabled
separate(s, i, e, currentFrame) ==
  IF s.proj[i].bodyEnabled
  THEN collisionCallback(s, <<"projectile", i>>, <<"enemy", e>>, currentFrame)
  ELSE s

(***************************************************************************)
(* One overlap callback of the Arcade collider for projectile i and enemy  *)
(* e.  The collider walks the projectiles that were group members when the *)
(* pass began and reports a pair whose bodies are enabled and intersect;   *)
(* it may visit the same pair again in the same physics step, and a pair   *)
(* whose projectile was released earlier in the pass.  The pass            *)
(* is over once scene.update has run (a shot, a cleanup).                  *)
(***************************************************************************)
Resolved(i, e) == IF <<i, e>> \in DOMAIN pairLog THEN pairLog[<<i, e>>] ELSE 0

OverlapReport(i, e) ==
  /\ lastShot < frame
  /\ i \in pass
  /\ bodiesOverlap(proj[i], enemies[e])
  /\ LET key == generateCollisionKey(proj[i], enemies[e])
         passes == proj[i].bodyEnabled /\ gatePasses(frameGate, key, frame)
         s == separate(Machine, i, e, frame)
         t == [s EXCEPT !.proj[i].seen = @ \cup {e},
                        !.proj[i].hurt = @ \cup {x \in Enemies : s.dmg[x] > 0},
                        !.proj[i].hits = [x \in Enemies |-> @[x] + s.dmg[x]]]
         now == Resolved(i, e) + (IF passes THEN 1 ELSE 0)
     IN /\ Commit(t)
        /\ pairLog' = IF proj[i].bodyEnabled
                      THEN [q \in DOMAIN pairLog \cup {<<i, e>>} |->
                              IF q = <<i, e>> THEN now ELSE pairLog[q]]
                      ELSE pairLog
        /\ last' = [Quiet EXCEPT
                      !.op = "overlap", !.p = i, !.e = e, !.gated = passes,
                      !.spent = ~proj[i].active,
                      !.stale = /\ proj[i].bodyEnabled
                                /\ key \in DOMAIN frameGate
                                /\ frameGate[key] # frame,
                      !.already = getEnemyIdentifier(enemies[e]) \in proj[i].hitEnemies
                                  /\ e \in proj[i].hurt,
                      !.count0 = proj[i].currentPierceCount,
                      !.hp0 = enemies[e].hp,
                      !.dmg = s.dmg, !.rel = s.rel, !.ev = s.ev,
                      !.deton = passes /\ proj[i].variant = "explosive"
                                /\ ~proj[i].hasExploded,
                      !.inRadius =
                        IF passes /\ proj[i].variant = "explosive"
                           /\ ~proj[i].hasExploded
                        THEN {x \in Enemies :
                                /\ enemies[x].hasTakeDamage
                                /\ circleMeetsBody(proj[i].x, proj[i].y,
                                                   Px(ExplosionRadius), enemies[x])}
                        ELSE {}]
  /\ UNCHANGED <<frame, lastShot, acquired, cleanups, pass, spawner, graphicsPool>>

\* game objects a callback can be handed: a projectile, an enemy, the player
Objects == {<<"projectile", 1>>, <<"enemy", "E1">>, <<"player", 0>>}

(***************************************************************************)
(* The callback is called with two objects that are not a projectile and   *)
(* an enemy in either order.                                               *)
(***************************************************************************)
InvalidReport(obj1, obj2) ==
  /\ lastShot < frame
  /\ identifyProjectileEnemy(obj1, obj2) = << >>
  /\ LET s == collisionCallback(Machine, obj1, obj2, frame)
     IN /\ Commit(s)
        /\ last' = [Quiet EXCEPT !.op = "invalid",
                                 !.dmg = s.dmg, !.rel = s.rel, !.ev = s.ev]
  /\ UNCHANGED <<frame, lastShot, acquired, cleanups, pass, pairLog, spawner,
                 graphicsPool>>

(***************************************************************************)
(* WeaponSystem.emergencyCleanup of the scene's weapon system.             *)
(***************************************************************************)
EmergencyCleanup ==
  /\ cleanups < MaxCleanups
  /\ LET s == emergencyCleanup(Machine, PoolOwners[2])
     IN /\ Commit(s)
        /\ last' = [Quiet EXCEPT !.op = "cleanup", !.rel = s.rel]
  /\ cleanups' = cleanups + 1
  /\ pass' = {}
  /\ UNCHANGED <<frame, lastShot, acquired, pairLog, spawner, graphicsPool>>

(***************************************************************************)
(* The start of the next frame: the enemies have moved, the update list    *)
(* runs preUpdate of every active projectile, the clock fires the timers   *)
(* that are due.                                                           *)
(***************************************************************************)
moveEnemy(e, en, f) == [en EXCEPT !.x = EnemyAt(e, f)[1], !.y = EnemyAt(e, f)[2]]

Tick(limit) ==
  /\ frame < limit
  /\ LET walked == [Machine EXCEPT !.enemies =
                      [e \in Enemies |-> moveEnemy(e, @[e], frame + 1)]]
         s == fireTimers(preUpdateAll(walked, 1), 1, frame + 1)
     IN /\ Commit(s)
        /\ last' = [Quiet EXCEPT !.op = "step", !.rel = s.rel]
        /\ pass' = {s.group[k] : k \in 1..Len(s.group)}
  /\ frame' = frame + 1
  /\ pairLog' = EmptyFn
  /\ UNCHANGED <<lastShot, acquired, cleanups, spawner, graphicsPool>>

Step == Tick(MaxFrame)

Next ==
  \/ \E type \in Variants, pos \in SpawnPositions, direction \in FireDirections :
       Fire(type, pos, direction)
  \/ \E i \in 1..Len(proj), e \in Enemies : OverlapReport(i, e)
  \/ \E obj1 \in Objects, obj2 \in Objects : InvalidReport(obj1, obj2)
  \/ EmergencyCleanup
  \/ Step

Spec == Init /\ [][Next]_vars

(***************************************************************************)
(* The player is hit: handleEnemyPlayerCollision and other callers pass    *)
(* the scene clock, which never runs backwards.                            *)
(***************************************************************************)
Times == {k * TimeStep : k \in 0..MaxTimeSteps}
DamageAmounts == {1, 3}

PlayerHit(amount, timestamp) ==
  /\ timestamp >= player.now
  /\ player' = playerTakeDamage(player, amount, timestamp)
  /\ UNCHANGED <<frame, proj, group, pools, stats, frameGate, enemies, lastShot,
                 acquired, cleanups, pass, gateOwner, pairLog, last, spawner,
                 graphicsPool>>

PlayerNext == \E amount \in DamageAmounts, timestamp \in Times : PlayerHit(amount, timestamp)

PlayerSpec == Init /\ [][PlayerNext]_vars

(***************************************************************************)
(* Waves: the scene clock runs, and MainScene.update starts the next      *)
(* preset wave on the N key when the spawner says it is not spawning.     *)
(***************************************************************************)
Others == <<frame, proj, group, pools, stats, frameGate, enemies, lastShot,
            acquired, cleanups, pass, player, graphicsPool, gateOwner, pairLog,
            last>>

StartNextWave ==
  /\ ~isSpawning(spawner)
  /\ spawner.currentWaveIndex < Len(DEFAULT_WAVES)
  /\ spawner' = [startWave(spawner, DEFAULT_WAVES[spawner.currentWaveIndex + 1])
                   EXCEPT !.currentWaveIndex = @ + 1]
  /\ UNCHANGED Others

WaveClock ==
  /\ spawner.now < MaxClock * ClockStep
  /\ LET ticked == [spawner EXCEPT !.now = @ + ClockStep]
     IN spawner' = clockUpdate(ticked, [k \in 1..Len(ticked.timers) |-> ticked.timers[k].id])
  /\ UNCHANGED Others

WaveNext == StartNextWave \/ WaveClock

WaveSpec == Init /\ [][WaveNext]_vars

(***************************************************************************)
(* The scene ends: WeaponSystem.destroy of the scene's weapon system       *)
(* destroys its pool.  Nothing runs afterwards.                            *)
(***************************************************************************)
Playing == last.op # "destroy"

WeaponSystemDestroy ==
  /\ Playing
  /\ LET s == poolDestroy(Machine, PoolOwners[2])
     IN /\ Commit(s)
        /\ last' = [Quiet EXCEPT !.op = "destroy", !.rel = s.rel]
  /\ pass' = {}
  /\ UNCHANGED <<frame, lastShot, acquired, cleanups, pairLog, spawner,
                 graphicsPool>>

ShutdownNext ==
  \/ /\ Playing
     /\ \E type \in Variants, pos \in SpawnPositions, direction \in FireDirections :
          Fire(type, pos, direction)
  \/ /\ Playing
     /\ \E i \in 1..Len(proj), e \in Enemies : OverlapReport(i, e)
  \/ Playing /\ Step
  \/ WeaponSystemDestroy

ShutdownSpec == Init /\ [][ShutdownNext]_vars

(***************************************************************************)
(* Callers of the GraphicsPool take Graphics objects and give back the    *)
(* ones they hold.                                                         *)
(***************************************************************************)
NotGraphics == <<frame, proj, group, pools, stats, frameGate, enemies, lastShot,
                 acquired, cleanups, pass, player, spawner, gateOwner, pairLog,
                 last>>

GetGraphics ==
  /\ graphicsPool.calls < MaxGraphicsCalls
  /\ graphicsPool' = [getGraphics(graphicsPool) EXCEPT !.calls = @ + 1]
  /\ UNCHANGED NotGraphics

ReturnGraphics(graphics) ==
  /\ graphicsPool.calls < MaxGraphicsCalls
  /\ graphics \in graphicsPool.held
  /\ graphicsPool' = [returnGraphics(graphicsPool, graphics) EXCEPT !.calls = @ + 1]
  /\ UNCHANGED NotGraphics

GraphicsNext ==
  \/ GetGraphics
  \/ \E graphics \in graphicsPool.held : ReturnGraphics(graphics)

GraphicsSpec == Init /\ [][GraphicsNext]_vars

\* the frame by which a shot of the liveness run has run out its lifetime
LastFrame == MaxFrame + 1

\* a shot early enough to live its whole lifetime before LastFrame
FireEarly(type, pos, direction) ==
  /\ frame + LifetimeFrames <= LastFrame
  /\ Fire(type, pos, direction)

\* the frame after MaxFrame
LateStep == frame >= MaxFrame /\ Tick(LastFrame)

LiveNext ==
  \/ \E type \in Variants, pos \in SpawnPositions, direction \in FireDirections :
       FireEarly(type, pos, direction)
  \/ \E i \in 1..Len(proj), e \in Enemies : OverlapReport(i, e)
  \/ EmergencyCleanup
  \/ Step
  \/ LateStep

\* the frame counter of the game loop goes up: the steps that change it are
\* the steps of Tick
Advance == frame < LastFrame /\ frame' = frame + 1

\* the game loop runs a frame after every frame
LiveSpec == Init /\ [][LiveNext]_vars /\ WF_frame(Advance)

(***************************************************************************)
(* Properties                                                              *)
(***************************************************************************)
InGroup(i) == \E k \in 1..Len(group) : group[k] = i

InFreeList(i, owner, variant) ==
  \E k \in 1..Len(pools[owner][variant]) : pools[owner][variant][k] = i

InSomeFreeList(i) ==
  \E o \in {PoolOwners[1], PoolOwners[2]}, v \in Variants : InFreeList(i, o, v)

\* C1: an overlap report that passes the frame gate and pairs a Pierce
\* projectile with a target it has already damaged and whose id is in its hit
\* set is a no-op: no damage to the target, the hit counter unchanged, the
\* projectile not released.
C1_PierceRepeatIsNoOp ==
  (/\ last.op = "overlap"
   /\ last.gated
   /\ proj[last.p].variant = "pierce"
   /\ last.already)
  => /\ last.dmg = NoDamage
     /\ proj[last.p].currentPierceCount = last.count0
     /\ last.p \notin last.rel

\* C2: a (projectile, target) pair reported one or more times within one
\* frame has exactly one hit resolved in that frame.
C2_OneHitPerPairPerFrame ==
  \A q \in DOMAIN pairLog : pairLog[q] = 1

\* C3: every instance the pools created is either active (active flag set,
\* in the group, in no free list) or pooled (active flag clear, not in the
\* group, in a free list of its variant).
C3_ActiveXorPooled ==
  \A i \in 1..Len(proj) :
    \/ /\ proj[i].active
       /\ InGroup(i)
       /\ ~InSomeFreeList(i)
    \/ /\ ~proj[i].active
       /\ ~InGroup(i)
       /\ \E o \in {PoolOwners[1], PoolOwners[2]} : InFreeList(i, o, proj[i].variant)

\* C4: the instance getProjectile returns has an empty pierce hit set, a
\* pierce counter of 0, a false detonation flag and an empty damaged set,
\* whichever way it was released before.
C4_AcquiredIsClean ==
  last.op = "acquire" => variantStateClear(proj[last.p])

\* C4 witness: getProjectile has just reused an instance that lay in the
\* free list with hit history from its previous activation.
C4_Witness ==
  /\ last.op = "acquire"
  /\ last.reused
  /\ last.dirty
  /\ proj[last.p].active

\* C5: right after an operation released a projectile, the frame gate holds
\* no entry written for that projectile.
C5_GatePurgedOnRelease ==
  \A i \in last.rel : \A k \in DOMAIN gateOwner : gateOwner[k][1] # i

\* C6: when a Pierce projectile is released, the number of distinct targets
\* it damaged since its acquire is min(MaxPierce, number of distinct targets
\* it overlapped).
C6_PierceDamagesMinOfMaxAndSeen ==
  \A i \in last.rel :
    proj[i].variant = "pierce"
      => Cardinality(proj[i].hurt) = Min(MaxPierce, Cardinality(proj[i].seen))

\* C7: in a detonation every target the area query finds within the radius
\* takes the explosive damage exactly once, the triggering target included,
\* and no other target takes any.
C7_DetonationDamagesOnce ==
  (last.op = "overlap" /\ last.deton)
    => \A x \in Enemies : last.dmg[x] = IF x \in last.inRadius THEN 1 ELSE 0

\* C8: a Normal projectile hit applies damage to the target exactly once and
\* releases the projectile to the pool, and no pair of a Normal projectile
\* has more than one hit resolved in a frame, however often it is reported.
C8_NormalHitOnceAndReleased ==
  /\ (/\ last.op = "overlap"
      /\ last.gated
      /\ proj[last.p].variant = "normal"
      /\ enemies[last.e].hasTakeDamage)
     => /\ \A x \in Enemies : last.dmg[x] = IF x = last.e THEN 1 ELSE 0
        /\ last.rel = {last.p}
        /\ ~proj[last.p].active
        /\ ~InGroup(last.p)
        /\ InFreeList(last.p, PoolOwners[2], "normal")
  /\ \A q \in DOMAIN pairLog : proj[q[1]].variant = "normal" => pairLog[q] <= 1

\* C8 witness: a report of a Normal projectile has just passed the gate and
\* damaged its target.
C8_Witness ==
  /\ last.op = "overlap"
  /\ last.gated
  /\ proj[last.p].variant = "normal"
  /\ enemies[last.e].hp < EnemyHp

\* C9: all reports of one (projectile, target) pair produce the same gate
\* key, wherever the two objects are: no two gate entries were written for
\* the same pair.
C9_KeyIndependentOfPosition ==
  \A k1, k2 \in DOMAIN gateOwner : gateOwner[k1] = gateOwner[k2] => k1 = k2

\* C10: every instance in a free list has its variant state cleared (pierce
\* hit set empty, counter 0, detonation flag false, damaged set empty).
C10_FreeListsHoldClearedInstances ==
  \A i \in 1..Len(proj) : InSomeFreeList(i) => variantStateClear(proj[i])

\* C11: an Explosive projectile runs its area-damage pass at most once
\* between an acquire and the following release, however many gated hits
\* are delivered to it.
C11_OneAreaPassPerActivation ==
  \A i \in 1..Len(proj) : proj[i].variant = "explosive" => proj[i].blasts <= 1

\* C11 witness: an Explosive projectile has just detonated on a gated hit and
\* its area pass has run.
C11_Witness ==
  /\ last.op = "overlap"
  /\ last.deton
  /\ proj[last.p].blasts = 1
  /\ last.inRadius # {}

\* C12: an overlap report that names a projectile already released to the
\* pool in this frame applies no damage, releases nothing and resolves no
\* hit.
C12_SpentProjectileReportsDoNothing ==
  (last.op = "overlap" /\ last.spent)
    => /\ last.dmg = NoDamage
       /\ last.rel = {}
       /\ last.ev = 0

\* C12 witness: the collider visits a pair whose projectile was released by
\* a hit on another enemy earlier in the same pass.
C12_Witness ==
  /\ last.op = "overlap"
  /\ last.spent
  /\ \E x \in Enemies \ {last.e} :
       <<last.p, x>> \in DOMAIN pairLog /\ pairLog[<<last.p, x>>] >= 1

\* C13: a Pierce projectile damages every target it overlaps at most once
\* between acquire and release, however many ticks the overlap lasts; it
\* is released by the hit that brings its counter to MaxPierce, and it
\* damages nothing once MaxPierce targets were counted.
C13_PierceDamagesEachTargetOnce ==
  /\ \A i \in 1..Len(proj) :
       proj[i].variant = "pierce" => \A e \in Enemies : proj[i].hits[e] <= 1
  /\ (last.op = "overlap" /\ proj[last.p].variant = "pierce")
       => /\ last.dmg # NoDamage => last.count0 < MaxPierce
          /\ last.p \in last.rel => last.count0 = MaxPierce - 1

\* C14: a detonation applies no damage to a target whose distance from the
\* detonation point is greater than the explosion radius.
C14_NoDamageBeyondRadius ==
  (last.op = "overlap" /\ last.deton)
    => \A x \in Enemies :
         (proj[last.p].x - enemies[x].x) * (proj[last.p].x - enemies[x].x)
           + (proj[last.p].y - enemies[x].y) * (proj[last.p].y - enemies[x].y)
           > Px(ExplosionRadius) * Px(ExplosionRadius)
         => last.dmg[x] = 0

\* C15: the hit that detonates an Explosive projectile (its first gated hit
\* since the acquire) releases it to the pool within the same callback,
\* however many damageable targets the area query found.
C15_DetonationReleasesAtOnce ==
  (last.op = "overlap" /\ last.deton)
    => /\ last.p \in last.rel
       /\ ~proj[last.p].active
       /\ ~InGroup(last.p)
       /\ InFreeList(last.p, PoolOwners[2], "explosive")

\* C15 witness: a detonation whose area query found no damageable target
\* (the trigger has no takeDamage) has released the projectile.
C15_Witness ==
  /\ last.op = "overlap" /\ last.deton
  /\ Cardinality(last.inRadius) = 0
  /\ last.p \in last.rel

\* C16: a report whose target has no takeDamage method is skipped: nothing
\* is damaged, the projectile stays active with its counter, hit set and
\* exploded flag unchanged, it is not released, and no collision event or
\* statistic is recorded.
C16_TargetWithoutTakeDamageIsSkipped ==
  (last.op = "overlap" /\ ~last.spent /\ ~enemies[last.e].hasTakeDamage)
    => /\ last.dmg = NoDamage
       /\ last.rel = {}
       /\ last.ev = 0
       /\ proj[last.p].active
       /\ proj[last.p].currentPierceCount = last.count0
       /\ ~proj[last.p].hasExploded

\* C17: when the two objects handed to the projectile-enemy handler are not
\* a projectile and an enemy in either order, the handler returns and leaves
\* the frame gate, the projectiles, the enemies, the pools, the statistics
\* and the event history as they were.
C17_InvalidPairChangesNothing ==
  [][last'.op = "invalid"
       => /\ UNCHANGED <<frameGate, proj, group, pools, stats, enemies>>
          /\ last'.dmg = NoDamage
          /\ last'.rel = {}
          /\ last'.ev = 0]_vars

\* C17 witness: the handler has just been called with an invalid pair while
\* a projectile is in flight and the frame gate holds an entry.
C17_Witness ==
  /\ last.op = "invalid"
  /\ Len(group) > 0
  /\ DOMAIN frameGate # {}

\* C18: an acquire always hands out an instance that was not in flight.  On
\* an empty free list it constructs exactly one new instance and counts it
\* as created, not reused; otherwise it takes one instance out of the free
\* list and counts it as reused, not created.  Instances acquired and not
\* yet released are therefore pairwise distinct.
C18_AcquireReusesThenCreates ==
  [][last'.op = "acquire"
       => LET i == last'.p
              type == proj'[i].variant
              owner == PoolOwners[2]
              n == Len(pools[owner][type])
          IN /\ proj'[i].active
             /\ \E k \in 1..Len(group') : group'[k] = i
             /\ i <= Len(proj) => ~proj[i].active
             /\ IF n = 0
                THEN /\ Len(proj') = Len(proj) + 1
                     /\ i = Len(proj')
                     /\ stats'[owner].created[type] = stats[owner].created[type] + 1
                     /\ stats'[owner].reused[type] = stats[owner].reused[type]
                     /\ pools'[owner][type] = << >>
                ELSE /\ Len(proj') = Len(proj)
                     /\ i = pools[owner][type][n]
                     /\ stats'[owner].reused[type] = stats[owner].reused[type] + 1
                     /\ stats'[owner].created[type] = stats[owner].created[type]
                     /\ Len(pools'[owner][type]) = n - 1]_vars

\* C18 witness: two instances of one variant are in flight, the first taken
\* from the free list and the second constructed because the list was empty.
C18_Witness ==
  /\ last.op = "acquire"
  /\ ~last.reused
  /\ \E j \in 1..Len(proj) :
       /\ j # last.p
       /\ proj[j].active
       /\ proj[j].variant = proj[last.p].variant
       /\ j <= 2 * Cardinality(Variants) * PoolSize
  /\ stats[PoolOwners[2]].created[proj[last.p].variant] = PoolSize + 1
  /\ stats[PoolOwners[2]].reused[proj[last.p].variant] = PoolSize

\* C19: when emergencyCleanup completes no instance is active, the pool's
\* active count of every variant is 0, and every instance that was active
\* is in its variant's free list.
C19_CleanupReturnsEveryActiveInstance ==
  [][last'.op = "cleanup"
       => /\ \A i \in 1..Len(proj') : ~proj'[i].active
          /\ \A v \in Variants : stats'[PoolOwners[2]].active[v] = 0
          /\ \A i \in 1..Len(proj) :
               proj[i].active
                 => \E k \in 1..Len(pools'[PoolOwners[2]][proj[i].variant]) :
                      pools'[PoolOwners[2]][proj[i].variant][k] = i]_vars

\* C20: for each pool and variant the active count of the statistics equals
\* the number of instances of that variant acquired from the pool and not
\* yet released, and is never negative.
C20_ActiveCountMatchesOutstanding ==
  \A o \in {PoolOwners[1], PoolOwners[2]}, v \in Variants :
    /\ stats[o].active[v] >= 0
    /\ stats[o].active[v] =
         Cardinality({i \in 1..Len(proj) :
                        /\ proj[i].active
                        /\ proj[i].variant = v
                        /\ o = PoolOwners[2]})

\* C21: for each pool and variant, the length of the free list plus the
\* number of active instances of the variant that the pool handed out never
\* decreases in a step: acquire and release only move an instance between
\* the two.
C21_FreePlusActiveNeverDecreases ==
  [][\A o \in {PoolOwners[1], PoolOwners[2]}, v \in Variants :
       Len(pools'[o][v])
         + Cardinality({i \in 1..Len(proj') :
                          proj'[i].active /\ proj'[i].variant = v /\ proj'[i].owner = o})
       >= Len(pools[o][v])
            + Cardinality({i \in 1..Len(proj) :
                             proj[i].active /\ proj[i].variant = v /\ proj[i].owner = o})]_vars

\* C21 witness: an instance taken from the free list was released again and
\* is back in the free list it came from.
C21_Witness ==
  /\ last.rel # {}
  /\ \E i \in last.rel :
       /\ ~proj[i].active
       /\ InFreeList(i, PoolOwners[2], proj[i].variant)
       /\ stats[PoolOwners[2]].reused[proj[i].variant] > 0

\* C22: every acquired projectile is eventually released, and never later
\* than the frame in which its lifetime elapses: no instance is active
\* LifetimeFrames after its acquire, and once the shots have been fired
\* the run reaches a state from which no instance is active any more.
C22_AcquiredIsEventuallyReleased ==
  /\ [](\A i \in 1..Len(proj) :
          proj[i].active => frame - proj[i].born < LifetimeFrames)
  /\ <>[](\A i \in 1..Len(proj) : ~proj[i].active)

\* C22 witness: the lifetime timer has just returned a projectile that no
\* hit and no bounds exit released.
C22_Witness ==
  /\ last.op = "step"
  /\ \E i \in last.rel :
       /\ frame - proj[i].born = LifetimeFrames
       /\ ~offScreen(proj[i])

\* C23: a callback emits exactly one projectile-hit event when its report
\* passed the frame gate and was not ignored by the projectile, and none
\* when the report was stopped by the gate, was not delivered, or was
\* ignored (a Pierce projectile that does not count the target).
C23_OneEventPerResolvedHit ==
  last.op = "overlap"
    => LET ignored == /\ proj[last.p].variant = "pierce"
                      /\ last.p \notin last.rel
                      /\ proj[last.p].currentPierceCount = last.count0
       IN last.ev = IF last.gated /\ ~ignored THEN 1 ELSE 0

\* C24: for a delivered report with gate key k at frame S the gate check
\* answers true exactly when the table has no entry for k or the recorded
\* frame differs from S, and then records k -> S and leaves the other
\* entries alone; otherwise it answers false and the table is unchanged.
C24_GateCheck ==
  [][(last'.op = "overlap" /\ ~last'.spent)
       => LET key == generateCollisionKey(proj[last'.p], enemies[last'.e])
              fresh == key \notin DOMAIN frameGate \/ frameGate[key] # frame
              recorded == shouldProcessCollision(frameGate, key, frame)
          IN /\ last'.gated = fresh
             /\ fresh => /\ DOMAIN recorded = DOMAIN frameGate \cup {key}
                         /\ recorded[key] = frame
                         /\ \A k \in DOMAIN frameGate \ {key} : recorded[k] = frameGate[k]
                         /\ last'.p \notin last'.rel => frameGate' = recorded
             /\ ~fresh => /\ recorded = frameGate
                          /\ frameGate' = frameGate]_vars

\* C24 witness: the gate has let through a key for which it held an entry
\* of an earlier frame.
C24_Witness ==
  /\ last.op = "overlap"
  /\ last.gated
  /\ last.stale

\* C25: the id under which an enemy is kept in the pierce hit set and in the
\* explosion damaged set is the one it had when it was created, wherever it
\* stands now, and two distinct living enemies never have the same id.
C25_StableUniqueTargetId ==
  /\ \A e \in Enemies :
       getEnemyIdentifier(enemies[e]) = getEnemyIdentifier(NewEnemy(e))
  /\ \A e1 \in Enemies, e2 \in Enemies :
       (e1 # e2 /\ enemies[e1].hp > 0 /\ enemies[e2].hp > 0)
         => getEnemyIdentifier(enemies[e1]) # getEnemyIdentifier(enemies[e2])

\* C26: once a call at time t has reduced the player's hit points, no call
\* with a timestamp t2 such that 0 <= t2 - t < HitCooldown changes them.
C26_InvincibleAfterHit ==
  [][\A t \in player.hurtTimes :
       (0 <= player'.now - t /\ player'.now - t < HitCooldown)
         => player'.hp = player.hp]_vars

\* C26 witness: a call arrived less than HitCooldown after a call that
\* reduced the hit points, and a later call reduced them again.
C26_Witness ==
  /\ Cardinality(player.hurtTimes) >= 2
  /\ \E t \in player.hurtTimes :
       /\ t < player.now
       /\ player.now - t < HitCooldown
       /\ ~player.changed

\* C27: two different (projectile, target) pairs reported in the same frame
\* have different gate keys, and so the first report of a pair is not
\* stopped by the gate entry of another pair.
C27_DistinctPairsDistinctKeys ==
  /\ \A q1 \in DOMAIN pairLog, q2 \in DOMAIN pairLog :
       q1 # q2 => generateCollisionKey(proj[q1[1]], enemies[q1[2]])
                    # generateCollisionKey(proj[q2[1]], enemies[q2[2]])
  /\ \A q \in DOMAIN pairLog : pairLog[q] >= 1

\* C28: a release puts the instance into exactly one free list, once, and
\* decrements the active counter of exactly one pool, once: no instance
\* occurs twice in the free lists of the two pools, and for each variant the
\* active counters of the two pools add up to the instances in flight.
C28_ReleasedIntoOnePoolOnce ==
  /\ \A i \in 1..Len(proj) :
       Cardinality({w \in {PoolOwners[1], PoolOwners[2]} \X Variants \X (1..Len(proj)) :
                      /\ w[3] <= Len(pools[w[1]][w[2]])
                      /\ pools[w[1]][w[2]][w[3]] = i}) <= 1
  /\ \A v \in Variants :
       stats[PoolOwners[1]].active[v] + stats[PoolOwners[2]].active[v]
         = Cardinality({i \in 1..Len(proj) : proj[i].active /\ proj[i].variant = v})

\* C29: within one activation at most one 'projectile:return' is emitted,
\* whichever of hit, lifetime expiry and bounds exit release the instance
\* and however they combine in a step; a release of an instance that is
\* already pooled emits nothing.
C29_OneReturnPerActivation ==
  [][\A i \in 1..Len(proj) :
       /\ proj'[i].returns <= 1
       /\ proj'[i].returns > proj[i].returns => proj[i].active]_vars

\* C29 witness: the lifetime timer of an instance that the emergency cleanup
\* had already pooled has fired, and no return event was emitted for it.
C29_Witness ==
  /\ last.op = "step"
  /\ \E i \in 1..Len(proj) :
       /\ ~proj[i].active
       /\ proj[i].born >= 0
       /\ frame - proj[i].born = LifetimeFrames
       /\ proj[i].timer = -1
       /\ proj[i].returns = 0

\* C30: an instance that the lifetime timer returns has lived exactly one
\* lifetime since its latest acquire: a timer armed in an earlier activation
\* never releases it.
C30_OnlyLatestTimerReleases ==
  [][last'.op = "step"
       => \A i \in last'.rel :
            ~offScreen(proj'[i]) => frame' - proj'[i].born = LifetimeFrames]_vars

\* C30 witness: an instance acquired while the timer of its previous
\* activation was still pending has outlived that timer's due time and is
\* returned by the timer of its latest acquire.
C30_Witness ==
  /\ last.op = "step"
  /\ \E i \in last.rel :
       /\ proj[i].prevTimer >= 0
       /\ proj[i].prevTimer < proj[i].born
       /\ ~offScreen(proj[i])
       /\ frame - proj[i].born = LifetimeFrames

\* C31: the gate is consulted once on the way from a report to the damage
\* application, so the first delivered report of a pair in a frame is
\* always processed: it passes the gate and the service's one event is raised.
C31_FirstReportProcessed ==
  [][(last'.op = "overlap" /\ ~last'.spent
        /\ proj[last'.p].bodyEnabled
        /\ <<last'.p, last'.e>> \notin DOMAIN pairLog)
       => last'.gated /\ last'.ev = 1]_vars

\* C32: the hit counter of a Pierce projectile equals the number of ids in
\* its hit set and lies between 0 and the maximum, and a Pierce projectile
\* that is active has a counter below the maximum.
C32_PierceCounterMatchesHitSet ==
  \A i \in 1..Len(proj) :
    proj[i].variant = "pierce"
      => /\ proj[i].currentPierceCount = Cardinality(proj[i].hitEnemies)
         /\ 0 <= proj[i].currentPierceCount
         /\ proj[i].currentPierceCount <= MaxPierce
         /\ proj[i].active => proj[i].currentPierceCount < MaxPierce

\* C32 witness: a Pierce projectile that had counted one target short of the
\* maximum has counted its last target and was released.
C32_Witness ==
  /\ last.op = "overlap"
  /\ proj[last.p].variant = "pierce"
  /\ last.gated
  /\ last.count0 = MaxPierce - 1
  /\ last.p \in last.rel

\* C33: a detonation takes hit points from enemies only; the player, whose
\* body may lie inside the radius, loses none to the explosion of its own
\* projectile.
C33_DetonationSparesPlayer ==
  [][last'.op = "overlap" => player'.hp = player.hp]_vars

\* C34: a target whose hit points are already 0 never consumes a projectile:
\* a delivered report against it releases no projectile, leaves a Pierce
\* counter as it was and triggers no detonation.
C34_DeadTargetConsumesNothing ==
  [][(last'.op = "overlap" /\ ~last'.spent
        /\ proj[last'.p].bodyEnabled
        /\ enemies[last'.e].hp = 0)
       => /\ last'.rel = {}
          /\ proj'[last'.p].currentPierceCount = proj[last'.p].currentPierceCount
          /\ ~last'.deton]_vars

\* C35: the death logic of a target runs exactly once, at the damage
\* application that first brings its hit points to 0; hit points never go
\* below 0, and a damage application to a dead target changes nothing.
C35_DeathExactlyOnce ==
  [][\A e \in Enemies :
       /\ enemies'[e].hp >= 0
       /\ enemies'[e].deaths = (IF enemies'[e].hp = 0 THEN 1 ELSE 0)
       /\ enemies'[e].deaths > enemies[e].deaths
            => enemies[e].hp > 0 /\ enemies'[e].hp = 0
       /\ enemies[e].hp = 0
            => /\ enemies'[e].hp = 0
               /\ enemies'[e].deaths = enemies[e].deaths]_vars

\* C35 witness: damage was applied to a target that was already dead when
\* the report came in, and its death logic has run once.
C35_Witness ==
  /\ last.op = "overlap"
  /\ last.hp0 = 0
  /\ last.dmg[last.e] >= 1
  /\ enemies[last.e].hp = 0
  /\ enemies[last.e].deaths = 1

\* C36: for a wave started while isSpawning() was false,
\* 'wave:spawning-complete' is emitted at most once, and only after all of
\* the wave's spawn entries have been spawned.
C36_SpawningCompleteOnce ==
  \A k \in 1..Len(DEFAULT_WAVES) :
    LET w == DEFAULT_WAVES[k].wave
    IN w \in spawner.started
         => /\ spawner.emitted[w] <= 1
            /\ spawner.emitted[w] >= 1
                 => spawner.spawned[w] = Len(DEFAULT_WAVES[k].enemies)

\* C37: after ProjectilePool.destroy() every instance the pool created,
\* pooled or active at the call, has been destroyed and none is left in the
\* projectile group.
C37_PoolDestroyDestroysAll ==
  last.op = "destroy"
    => /\ \A i \in 1..Len(proj) :
            proj[i].owner = PoolOwners[2] => proj[i].destroyed
       /\ group = <<>>

\* C38: for each pool and variant, the created count of the statistics
\* equals the number of distinct instances in the variant's free list plus
\* the number of active instances of the variant that the pool handed out.
C38_CreatedIsFreePlusActive ==
  \A o \in {PoolOwners[1], PoolOwners[2]}, v \in Variants :
    stats[o].created[v] =
      Cardinality({pools[o][v][k] : k \in 1..Len(pools[o][v])})
        + Cardinality({i \in 1..Len(proj) :
                         proj[i].active /\ proj[i].variant = v /\ proj[i].owner = o})

\* C39: no item of the GraphicsPool is in availableGraphics and in
\* activeGraphics at the same time, and the getGraphics calls since the last
\* returnGraphics have handed out pairwise different Graphics objects.
C39_GraphicsNeverSharedOut ==
  /\ \A k \in 1..Len(graphicsPool.availableGraphics) :
       \A j \in 1..Len(graphicsPool.activeGraphics) :
         graphicsPool.availableGraphics[k] # graphicsPool.activeGraphics[j]
  /\ \A k \in 1..Len(graphicsPool.got), j \in 1..Len(graphicsPool.got) :
       k # j => graphicsPool.got[k] # graphicsPool.got[j]

====
